---- MODULE Spec2Model ----
(***************************************************************************)
(* tracerr, print.go: the report of an error's stack trace.  Threads call  *)
(* Sprint, SprintSource and SprintSourceColor; sprint walks the frames and *)
(* sourceRows reads each frame's file through readLines, whose cache is    *)
(* guarded by one sync.RWMutex.  A thread's position (pc) moves at the     *)
(* statements of readLines that touch the mutex, the cache or the file.    *)
(***************************************************************************)
EXTENDS Integers, Sequences, FiniteSets, TLC

(* ------------------------------ bounds -------------------------------- *)
NumThreads == 2
MaxFrames == 3
MaxCfg == 2
MaxNum == 3
MaxBytes == 2
MaxLine == 3

(* ----------------------- values set by the source --------------------- *)
InitLinesAfter == 2
InitLinesBefore == 3
InitIgnoreFirstFrames == 0
InitMaxFrames == 0
InitIgnoreLastFrames == 0

Threads == 1..NumThreads
NL == "\n"
TAB == "\t"
PathA == "a.go"
PathB == "b.go"
Paths == {PathA, PathB}

VARIABLES
    DefaultLinesAfter,        \* print.go:12
    DefaultLinesBefore,       \* print.go:15
    DefaultIgnoreFirstFrames, \* print.go:18
    DefaultMaxFrames,         \* print.go:21
    DefaultIgnoreLastFrames,  \* print.go:24
    cache,                    \* print.go:26, a function whose domain is the cached paths
    mutex,                    \* print.go:28, [readers, writer] of the RWMutex
    fs,                       \* the files os.ReadFile can read: path -> bytes
    fileReads,                \* per path, the os.ReadFile calls that returned a content
    thr,                      \* per thread, the locals of its sprint call
    firstLines,               \* history: path -> the lines readLines first returned for it
    sequential                \* history: no two readLines calls have overlapped so far

config == <<DefaultLinesAfter, DefaultLinesBefore, DefaultIgnoreFirstFrames,
            DefaultMaxFrames, DefaultIgnoreLastFrames>>
vars == <<DefaultLinesAfter, DefaultLinesBefore, DefaultIgnoreFirstFrames,
          DefaultMaxFrames, DefaultIgnoreLastFrames, cache, mutex, fs,
          fileReads, thr, firstLines, sequential>>

(* ------------------------- strings and rows --------------------------- *)
Digit(d) == CASE d = 0 -> "0" [] d = 1 -> "1" [] d = 2 -> "2" [] d = 3 -> "3"
              [] d = 4 -> "4" [] d = 5 -> "5" [] d = 6 -> "6" [] d = 7 -> "7"
              [] d = 8 -> "8" [] OTHER -> "9"

RECURSIVE Digits(_)
Digits(n) == IF n < 10 THEN <<Digit(n)>> ELSE Digits(n \div 10) \o <<Digit(n % 10)>>

\* %d and strconv.Itoa
Itoa(n) == IF n < 0 THEN <<"-">> \o Digits(-n) ELSE Digits(n)

\* the ANSI decorators
red(s) == <<"ESC[91m">> \o s \o <<"ESC[0m">>
yellow(s) == <<"ESC[93m">> \o s \o <<"ESC[0m">>
black(s) == <<"ESC[90m">> \o s \o <<"ESC[0m">>
bold(s) == <<"ESC[1m">> \o s \o <<"ESC[0m">>

\* Frame.String()
FrameString(frame) ==
    <<frame.Path, ":">> \o Itoa(frame.Line) \o <<" ">> \o frame.Func \o <<"()">>

\* strings.Split(s, "\n")
RECURSIVE Split(_)
Split(s) ==
    IF \A j \in 1..Len(s) : s[j] # NL
    THEN <<s>>
    ELSE LET k == CHOOSE j \in 1..Len(s) : s[j] = NL /\ \A h \in 1..(j - 1) : s[h] # NL
         IN  <<SubSeq(s, 1, k - 1)>> \o Split(SubSeq(s, k + 1, Len(s)))

\* strings.Join(rows, "\n")
RECURSIVE Join(_)
Join(rows) ==
    IF rows = <<>> THEN <<>>
    ELSE IF Len(rows) = 1 THEN rows[1]
    ELSE rows[1] \o <<NL>> \o Join(Tail(rows))

(* ------------------------------ calcRows ------------------------------ *)
Clamp(x) == IF x < 0 THEN 0 ELSE x

\* Go's / truncates toward zero
GoDiv(a, b) == IF a >= 0 THEN a \div b ELSE -((-a) \div b)

\* the extra line goes to after
CalcOneExtraAfter(n) ==
    IF n > 0
    THEN LET after == GoDiv(n, 2)
         IN  [before |-> n - after - 1, after |-> after, withSource |-> TRUE]
    ELSE [before |-> 0, after |-> 0, withSource |-> FALSE]

CalcOne(n) ==
    IF n > 0
    THEN LET after == GoDiv(n - 1, 2)
         IN  [before |-> n - after - 1, after |-> after, withSource |-> TRUE]
    ELSE [before |-> 0, after |-> 0, withSource |-> FALSE]

calcRows(nums) ==
    LET r == IF Len(nums) > 1
             THEN [before |-> nums[1], after |-> nums[2], withSource |-> TRUE]
             ELSE IF Len(nums) = 1
             THEN CalcOne(nums[1])
             ELSE [before |-> DefaultLinesBefore, after |-> DefaultLinesAfter,
                   withSource |-> TRUE]
    IN  [before |-> Clamp(r.before), after |-> Clamp(r.after),
         withSource |-> r.withSource]

(* ----------------------------- sourceRows ----------------------------- *)
NotFound(path) == <<"tracerr: file ", path, " not found">>

TooFew(got, want) ==
    <<"tracerr: too few lines, got ">> \o Itoa(got) \o <<", want ">> \o Itoa(want)

Warn(message, colorized) == IF colorized THEN yellow(message) ELSE message

\* one row of the window, index i is 0-based
SourceRow(lines, i, frameLine, colorized) ==
    LET line == lines[i + 1]
    IN  IF i = frameLine - 1
        THEN LET message == Itoa(i + 1) \o <<TAB>> \o line
             IN  IF colorized THEN red(message) ELSE message
        ELSE IF colorized
        THEN black(Itoa(i + 1)) \o <<TAB>> \o line
        ELSE Itoa(i + 1) \o <<TAB>> \o line

InRange(i, lines) == ~(i < 0 \/ i >= Len(lines))

\* the loop for i := start; i <= end; i++
RECURSIVE Window(_, _, _, _, _, _)
Window(rows, lines, i, end, frameLine, colorized) ==
    IF i > end THEN rows
    ELSE IF InRange(i, lines)
    THEN Window(Append(rows, SourceRow(lines, i, frameLine, colorized)),
                lines, i + 1, end, frameLine, colorized)
    ELSE Window(rows, lines, i + 1, end, frameLine, colorized)

\* the length test with <= for <
TooShortOffByOne(lines, frame) == Len(lines) <= frame.Line

TooShort(lines, frame) == Len(lines) < frame.Line

\* sourceRows once readLines has returned (lines, ok)
sourceRows(rows, frame, before, after, colorized, lines, ok) ==
    IF ~ok
    THEN rows \o <<Warn(NotFound(frame.Path), colorized), <<>> >>
    ELSE IF TooShort(lines, frame)
    THEN rows \o <<Warn(TooFew(Len(lines), frame.Line), colorized), <<>> >>
    ELSE LET current == frame.Line - 1
         IN  Append(Window(rows, lines, current - before, current + after,
                           frame.Line, colorized), <<>>)

(* ------------------------------- sprint -------------------------------- *)
NoLines == <<>>

IdleThread ==
    [pc |-> "idle", fn |-> "", err |-> [kind |-> "nil", msg |-> <<>>, frames |-> <<>>],
     nums |-> <<>>, colorized |-> FALSE, before |-> 0, after |-> 0,
     withSource |-> FALSE, i |-> 0, appendedFrames |-> 0, rows |-> <<>>,
     lines |-> NoLines, late |-> FALSE, result |-> <<>>]

InReadLines == {"rlocked", "read", "lock", "locked"}

CurFrame(th) == th.err.frames[th.i]

\* return strings.Join(rows, "\n")
Finish(th) == [th EXCEPT !.pc = "done", !.result = Join(th.rows)]

\* one frame too few is skipped
SkippedOffByOne(i) == i < DefaultIgnoreFirstFrames

Skipped(i) == i <= DefaultIgnoreFirstFrames

\* the cap is tested with > for >=
MaxReachedLate(appended) == DefaultMaxFrames > 0 /\ appended > DefaultMaxFrames

MaxReached(appended) == DefaultMaxFrames > 0 /\ appended >= DefaultMaxFrames

TailReached(i, n) == DefaultIgnoreLastFrames > 0 /\ i + DefaultIgnoreLastFrames >= n

\* the end of the loop body: appendedFrames++ and the two breaks
AfterFrame(th) ==
    LET a == th.appendedFrames + 1
        next == [th EXCEPT !.appendedFrames = a]
    IN  IF MaxReached(a) THEN Finish(next)
        ELSE IF TailReached(th.i, Len(th.err.frames)) THEN Finish(next)
        ELSE [next EXCEPT !.pc = "loop"]

Header(frame, colorized) ==
    IF colorized THEN bold(FrameString(frame)) ELSE FrameString(frame)

\* sprint up to the loop
sprint(t, fn, err, nums, colorized) ==
    /\ thr[t].pc = "idle"
    /\ LET cr == calcRows(nums)
           th == [IdleThread EXCEPT !.fn = fn, !.err = err, !.nums = nums,
                                    !.colorized = colorized]
       IN  thr' = [thr EXCEPT ![t] =
               IF err.kind = "nil" THEN [th EXCEPT !.pc = "done", !.result = <<>>]
               ELSE IF err.kind = "plain" THEN [th EXCEPT !.pc = "done", !.result = err.msg]
               ELSE [th EXCEPT !.pc = "loop", !.before = cr.before, !.after = cr.after,
                               !.withSource = cr.withSource,
                               !.rows = IF cr.withSource THEN <<err.msg, <<>> >>
                                        ELSE <<err.msg>>]]
    /\ UNCHANGED <<config, cache, mutex, fs, fileReads, firstLines, sequential>>

\* Sprint passing no window argument
SprintDefaultWindow(t, err) == sprint(t, "Sprint", err, <<>>, FALSE)

Sprint(t, err) == sprint(t, "Sprint", err, <<0>>, FALSE)

SprintSource(t, err, nums) == sprint(t, "SprintSource", err, nums, FALSE)

SprintSourceColor(t, err, nums) == sprint(t, "SprintSourceColor", err, nums, TRUE)

\* one turn of for _, frame := range frames, up to the call of readLines
Loop(t) ==
    LET th == thr[t]
        i == th.i + 1
    IN  /\ th.pc = "loop"
        /\ thr' = [thr EXCEPT ![t] =
               IF th.i >= Len(th.err.frames) THEN Finish(th)
               ELSE IF Skipped(i) THEN [th EXCEPT !.i = i]
               ELSE LET h == [th EXCEPT !.i = i,
                                 !.rows = Append(th.rows, Header(th.err.frames[i], th.colorized))]
                    IN  IF th.withSource THEN [h EXCEPT !.pc = "rlock"]
                        ELSE AfterFrame(h)]
        /\ UNCHANGED <<config, cache, mutex, fs, fileReads, firstLines, sequential>>

(* ------------------------------ readLines ------------------------------ *)
\* readLines returns (lines, ok) to sourceRows, which returns to the loop body
Returned(t, lines, ok) ==
    LET th == thr[t]
        frame == CurFrame(th)
    IN  /\ thr' = [thr EXCEPT ![t] =
               AfterFrame([th EXCEPT !.lines = lines,
                                     !.rows = sourceRows(th.rows, frame, th.before, th.after,
                                                         th.colorized, lines, ok)])]
        /\ firstLines' = IF ok /\ frame.Path \notin DOMAIN firstLines
                         THEN [p \in DOMAIN firstLines \cup {frame.Path} |->
                                  IF p = frame.Path THEN lines ELSE firstLines[p]]
                         ELSE firstLines

\* (Go also holds new readers back while a Lock is pending; the model allows them)
CanRLock == mutex.writer = 0

\* a write lock that does not wait for the readers
CanLockIgnoringReaders == mutex.writer = 0

CanLock == mutex.writer = 0 /\ mutex.readers = {}

\* mutex.RLock()
RLock(t) ==
    /\ thr[t].pc = "rlock"
    /\ CanRLock
    /\ mutex' = [mutex EXCEPT !.readers = @ \cup {t}]
    /\ thr' = [thr EXCEPT ![t].pc = "rlocked",
                          ![t].late = CurFrame(thr[t]).Path \in DOMAIN firstLines]
    /\ sequential' = (sequential /\ \A u \in Threads \ {t} : thr[u].pc \notin InReadLines)
    /\ UNCHANGED <<config, cache, fs, fileReads, firstLines>>

\* a lookup that never hits
NeverCached(path) == FALSE

Cached(path) == path \in DOMAIN cache

\* lines, ok := cache[path]; mutex.RUnlock(); if ok { return lines, nil }
Lookup(t) ==
    LET path == CurFrame(thr[t]).Path
    IN  /\ thr[t].pc = "rlocked"
        /\ mutex' = [mutex EXCEPT !.readers = @ \ {t}]
        /\ IF Cached(path)
           THEN Returned(t, cache[path], TRUE)
           ELSE /\ thr' = [thr EXCEPT ![t].pc = "read"]
                /\ UNCHANGED firstLines
        /\ UNCHANGED <<config, cache, fs, fileReads, sequential>>

\* a failed read stored as an empty entry
ReadFileCachesFailure(t) ==
    LET path == CurFrame(thr[t]).Path
    IN  /\ thr[t].pc = "read"
        /\ IF path \in DOMAIN fs
           THEN /\ thr' = [thr EXCEPT ![t].pc = "lock", ![t].lines = Split(fs[path])]
                /\ fileReads' = [fileReads EXCEPT ![path] = @ + 1]
                /\ UNCHANGED <<firstLines, cache>>
           ELSE /\ Returned(t, NoLines, FALSE)
                /\ cache' = [p \in DOMAIN cache \cup {path} |->
                                IF p = path THEN NoLines ELSE cache[p]]
                /\ UNCHANGED fileReads
        /\ UNCHANGED <<config, mutex, fs, sequential>>

\* b, err := os.ReadFile(path); lines = strings.Split(string(b), "\n")
ReadFile(t) ==
    LET path == CurFrame(thr[t]).Path
    IN  /\ thr[t].pc = "read"
        /\ IF path \in DOMAIN fs
           THEN /\ thr' = [thr EXCEPT ![t].pc = "lock", ![t].lines = Split(fs[path])]
                /\ fileReads' = [fileReads EXCEPT ![path] = @ + 1]
                /\ UNCHANGED firstLines
           ELSE /\ Returned(t, NoLines, FALSE)
                /\ UNCHANGED fileReads
        /\ UNCHANGED <<config, cache, mutex, fs, sequential>>

\* mutex.Lock()
Lock(t) ==
    /\ thr[t].pc = "lock"
    /\ CanLock
    /\ mutex' = [mutex EXCEPT !.writer = t]
    /\ thr' = [thr EXCEPT ![t].pc = "locked"]
    /\ UNCHANGED <<config, cache, fs, fileReads, firstLines, sequential>>

Put(c, path, lines) ==
    [p \in DOMAIN c \cup {path} |-> IF p = path THEN lines ELSE c[p]]

\* cache[path] = lines; return lines, nil; the deferred mutex.Unlock()
Store(t) ==
    LET path == CurFrame(thr[t]).Path
    IN  /\ thr[t].pc = "locked"
        /\ cache' = Put(cache, path, thr[t].lines)
        /\ mutex' = [mutex EXCEPT !.writer = 0]
        /\ Returned(t, thr[t].lines, TRUE)
        /\ UNCHANGED <<config, fs, fileReads, sequential>>

\* the caller takes the string that Sprint, SprintSource or SprintSourceColor returns
Return(t) ==
    /\ thr[t].pc = "done"
    /\ thr' = [thr EXCEPT ![t] = IdleThread]
    /\ UNCHANGED <<config, cache, mutex, fs, fileReads, firstLines, sequential>>

Step(t) ==
    Loop(t) \/ RLock(t) \/ Lookup(t) \/ ReadFile(t) \/ Lock(t) \/ Store(t) \/ Return(t)

(* ----------------------------- the files ------------------------------- *)
WriteFile(path, content) ==
    /\ fs' = Put(fs, path, content)
    /\ UNCHANGED <<config, cache, mutex, fileReads, thr, firstLines, sequential>>

RemoveFile(path) ==
    /\ path \in DOMAIN fs
    /\ fs' = [p \in DOMAIN fs \ {path} |-> fs[p]]
    /\ UNCHANGED <<config, cache, mutex, fileReads, thr, firstLines, sequential>>

(* ------------------------------ the inputs ----------------------------- *)
Frame(i, path, line) == [Func |-> <<"main.f">> \o Itoa(i), Path |-> path, Line |-> line]

NilErr == [kind |-> "nil", msg |-> <<>>, frames |-> <<>>]
PlainErr == [kind |-> "plain", msg |-> <<"boom">>, frames |-> <<>>]
Traced(frames) == [kind |-> "traced", msg |-> <<"boom">>, frames |-> frames]

RECURSIVE Contents(_)
Contents(n) ==
    IF n = 0 THEN {<<>>}
    ELSE LET c == Contents(n - 1)
         IN  c \cup {Append(s, b) : s \in {x \in c : Len(x) = n - 1}, b \in {"x", NL}}

EmptyMap == [p \in {} |-> <<>>]

InitShared ==
    /\ cache = EmptyMap
    /\ mutex = [readers |-> {}, writer |-> 0]
    /\ fileReads = [p \in Paths |-> 0]
    /\ thr = [t \in Threads |-> IdleThread]
    /\ firstLines = EmptyMap
    /\ sequential = TRUE

InitDefaults ==
    /\ DefaultLinesAfter = InitLinesAfter
    /\ DefaultLinesBefore = InitLinesBefore
    /\ DefaultIgnoreFirstFrames = InitIgnoreFirstFrames
    /\ DefaultMaxFrames = InitMaxFrames
    /\ DefaultIgnoreLastFrames = InitIgnoreLastFrames

(* -------- SpecSelect: one thread, the frame selection of sprint -------- *)
\* frame i is on a.go (two lines) when i is odd, on b.go (no such file) when even
SelectPath(i) == IF i % 2 = 1 THEN PathA ELSE PathB
SelectStack(n) == [i \in 1..n |-> Frame(i, SelectPath(i), i)]
SelectErrs == {NilErr, PlainErr} \cup {Traced(SelectStack(n)) : n \in 0..MaxFrames}

InitSelect ==
    /\ InitShared
    /\ DefaultLinesAfter \in {0, InitLinesAfter}
    /\ DefaultLinesBefore \in {0, InitLinesBefore}
    /\ DefaultIgnoreFirstFrames \in 0..MaxCfg
    /\ DefaultMaxFrames \in 0..MaxCfg
    /\ DefaultIgnoreLastFrames \in 0..MaxCfg
    /\ fs = Put(EmptyMap, PathA, <<"x", NL, "x">>)

NextSelect ==
    \/ \E err \in SelectErrs : Sprint(1, err)
    \/ \E err \in SelectErrs : SprintSource(1, err, <<>>)
    \/ Step(1)

SpecSelect == InitSelect /\ [][NextSelect]_vars

(* -------- SpecSource: one thread, the windows of sourceRows ------------ *)
SourceErrs == {Traced(<<Frame(1, PathA, line)>>) : line \in 0..MaxLine}
SourceNums ==
    {<<>>} \cup {<<n>> : n \in (-1)..MaxNum}
           \cup {<<b, a>> : b \in {-1, 1}, a \in {-1, 1}} \cup {<<1, 0, MaxNum>>}

InitSource ==
    /\ InitShared
    /\ DefaultLinesAfter \in {0, InitLinesAfter}
    /\ DefaultLinesBefore \in {0, InitLinesBefore}
    /\ DefaultIgnoreFirstFrames = InitIgnoreFirstFrames
    /\ DefaultMaxFrames = InitMaxFrames
    /\ DefaultIgnoreLastFrames = InitIgnoreLastFrames
    /\ fs = EmptyMap

\* the file changes between the calls
NextSource ==
    \/ thr[1].pc = "idle" /\ \E c \in Contents(MaxBytes) : WriteFile(PathA, c)
    \/ thr[1].pc = "idle" /\ RemoveFile(PathA)
    \/ \E err \in SourceErrs, nums \in SourceNums : SprintSource(1, err, nums)
    \/ \E err \in SourceErrs, nums \in SourceNums : SprintSourceColor(1, err, nums)
    \/ Step(1)

SpecSource == InitSource /\ [][NextSource]_vars

(* -------- SpecCache: concurrent calls, the file may change ------------- *)
ContentV1 == <<"x">>
ContentV2 == <<"y", NL>>
CacheErrs == {Traced(<<Frame(1, PathA, 1), Frame(2, PathA, 1)>>)}
StableErrs == {Traced(<<Frame(1, PathA, 1)>>)} \cup CacheErrs

InitCache ==
    /\ InitShared
    /\ InitDefaults
    /\ fs \in {EmptyMap, Put(EmptyMap, PathA, ContentV1)}

NextCache ==
    \/ \E c \in {ContentV1, ContentV2} : WriteFile(PathA, c)
    \/ RemoveFile(PathA)
    \/ \E t \in Threads, err \in CacheErrs : SprintSource(t, err, <<1>>)
    \/ \E t \in Threads : Step(t)

SpecCache == InitCache /\ [][NextCache]_vars

(* -------- SpecStable: concurrent calls, the file is unchanged ---------- *)
InitStable ==
    /\ InitShared
    /\ InitDefaults
    /\ fs = Put(EmptyMap, PathA, ContentV1)

NextStable ==
    \/ \E t \in Threads, err \in StableErrs : SprintSource(t, err, <<1>>)
    \/ \E t \in Threads : Step(t)

SpecStable == InitStable /\ [][NextStable]_vars

(* =================== vocabulary of the properties ====================== *)
Min(a, b) == IF a < b THEN a ELSE b
Max0(a) == IF a < 0 THEN 0 ELSE a
Range(a, b) == [j \in 1..(b - a + 1) |-> a + j - 1]
InCall(th) == th.pc # "idle" /\ th.err.kind = "traced"
NFrames(th) == Len(th.err.frames)

IsHeaderOf(row, frame) == row = FrameString(frame) \/ row = bold(FrameString(frame))
HeaderPos(th, row) == {i \in 1..NFrames(th) : IsHeaderOf(row, th.err.frames[i])}

\* the positions of the frames whose header is in rows, in the order of the rows
Rendered(th) ==
    LET hs == SelectSeq(th.rows, LAMBDA r : HeaderPos(th, r) # {})
    IN  [j \in 1..Len(hs) |-> CHOOSE i \in HeaderPos(th, hs[j]) : TRUE]

\* the rows that follow the last header
LastBlock(th) ==
    LET at == {j \in 1..Len(th.rows) : HeaderPos(th, th.rows[j]) # {}}
        last == CHOOSE j \in at : \A h \in at : h <= j
    IN  SubSeq(th.rows, last + 1, Len(th.rows))

IsEscape(c) == c \in {"ESC[91m", "ESC[93m", "ESC[90m", "ESC[1m", "ESC[0m"}
Plain(row) == SelectSeq(row, LAMBDA c : ~IsEscape(c))

Moved(t) == thr'[t] # thr[t]

(* ------------------------------- C1 ------------------------------------ *)
\* C1: with DefaultIgnoreLastFrames = k > 0 and n frames, sprint renders no
\* frame at a position > n - k, whatever DefaultIgnoreFirstFrames and
\* DefaultMaxFrames are.  (The code renders frame f+1 before its stop test.)
C1_NoLastFrames ==
    \A t \in Threads :
        InCall(thr[t]) /\ DefaultIgnoreLastFrames > 0 =>
            \A j \in 1..Len(Rendered(thr[t])) :
                Rendered(thr[t])[j] <= NFrames(thr[t]) - DefaultIgnoreLastFrames

(* ------------------------------- C2 ------------------------------------ *)
\* C2: no frame at a position <= DefaultIgnoreFirstFrames is rendered, the
\* rendered frames keep their order, appendedFrames counts the rendered frames
\* only, and with no cap and no ignored tail the rendered frames are exactly
\* the positions f+1 .. n.
C2_IgnoreFirst ==
    \A t \in Threads :
        LET th == thr[t]
            r == Rendered(th)
            f == DefaultIgnoreFirstFrames
            n == NFrames(th)
        IN  InCall(th) =>
              /\ \A j \in 1..Len(r) : r[j] > f
              /\ \A j \in 1..(Len(r) - 1) : r[j] < r[j + 1]
              /\ th.pc \in {"loop", "done"} => th.appendedFrames = Len(r)
              /\ th.pc = "done" /\ DefaultMaxFrames > 0 /\ DefaultIgnoreLastFrames = 0
                    => Len(r) = Min(DefaultMaxFrames, Max0(n - f))
              /\ th.pc = "done" /\ DefaultMaxFrames = 0 /\ DefaultIgnoreLastFrames = 0
                    => r = Range(f + 1, n)

C2_Witness ==
    \E t \in Threads :
        /\ thr[t].pc = "done" /\ InCall(thr[t]) /\ NFrames(thr[t]) = 3
        /\ DefaultIgnoreFirstFrames = 1 /\ DefaultMaxFrames = 0 /\ DefaultIgnoreLastFrames = 0
        /\ Rendered(thr[t]) = <<2, 3>>

(* ------------------------------- C3 ------------------------------------ *)
\* C3: with DefaultMaxFrames = m > 0 at most m frames are rendered and the loop
\* is left right after the m-th; with no ignored tail the rendered frames are
\* exactly f+1 .. min(n, f+m).  With m = 0 nothing caps the rendered frames.
C3_MaxFrames ==
    \A t \in Threads :
        LET th == thr[t]
            r == Rendered(th)
            f == DefaultIgnoreFirstFrames
            m == DefaultMaxFrames
            n == NFrames(th)
        IN  InCall(th) =>
              /\ m > 0 => Len(r) <= m
              /\ m > 0 /\ th.appendedFrames >= m => th.pc = "done"
              /\ th.pc = "done" /\ m > 0 /\ DefaultIgnoreLastFrames = 0
                    => r = Range(f + 1, Min(n, f + m))
              /\ th.pc = "done" /\ m = 0 /\ DefaultIgnoreLastFrames = 0
                    => Len(r) = Max0(n - f)

C3_Witness ==
    \E t \in Threads :
        /\ thr[t].pc = "done" /\ InCall(thr[t]) /\ NFrames(thr[t]) = 3
        /\ DefaultIgnoreFirstFrames = 1 /\ DefaultMaxFrames = 1 /\ DefaultIgnoreLastFrames = 0
        /\ Rendered(thr[t]) = <<2>>

(* ------------------------------- C4 ------------------------------------ *)
C4_Rows ==
    \A t \in Threads :
        LET th == thr[t]
            r == Rendered(th)
        IN  InCall(th) /\ th.fn = "Sprint" =>
              /\ th.pc \in {"loop", "done"}
              /\ Len(th.rows) = 1 + Len(r)
              /\ th.rows[1] = th.err.msg
              /\ \A j \in 1..Len(r) : th.rows[j + 1] = FrameString(th.err.frames[r[j]])

C4_Step ==
    \A t \in Threads :
        Moved(t) /\ (thr[t].fn = "Sprint" \/ thr'[t].fn = "Sprint") =>
            /\ cache' = cache
            /\ fileReads' = fileReads
            /\ mutex' = mutex

\* C4: a Sprint call on an error with a stack trace produces the message row and
\* one header row per rendered frame, nothing else, and no step of it touches
\* the cache, the mutex or the files, whatever DefaultLinesBefore and
\* DefaultLinesAfter are.
C4_SprintNoSource == [][C4_Rows /\ C4_Rows' /\ C4_Step]_vars

C4_Witness ==
    \E t \in Threads :
        /\ thr[t].pc = "done" /\ InCall(thr[t]) /\ thr[t].fn = "Sprint"
        /\ Len(thr[t].rows) = 3 /\ Len(Rendered(thr[t])) = 2
        /\ DefaultLinesBefore = InitLinesBefore /\ DefaultLinesAfter = InitLinesAfter
        /\ cache = EmptyMap /\ fileReads[PathA] = 0

(* ------------------------------- C5 ------------------------------------ *)
\* C5: calcRows([n]) gives, for n > 0, after = (n-1) div 2, before = n-after-1
\* and withSource, so before + after + 1 = n and before - after is 0 or 1; for
\* n <= 0 it gives 0, 0 and no source.  The defaults play no part.
C5_CalcRowsOne ==
    \A t \in Threads :
        LET th == thr[t]
            n == th.nums[1]
        IN  InCall(th) /\ Len(th.nums) = 1 =>
              IF n > 0
              THEN /\ th.withSource
                   /\ th.after = (n - 1) \div 2
                   /\ th.before = n - th.after - 1
                   /\ th.before + th.after + 1 = n
                   /\ th.before - th.after \in {0, 1}
                   /\ (n % 2 = 0 => th.before = th.after + 1)
              ELSE th.before = 0 /\ th.after = 0 /\ ~th.withSource

C5_Witness ==
    \E t \in Threads :
        /\ InCall(thr[t]) /\ thr[t].nums = <<2>>
        /\ thr[t].before = 1 /\ thr[t].after = 0 /\ thr[t].withSource
        /\ DefaultLinesBefore = InitLinesBefore /\ DefaultLinesAfter = InitLinesAfter

(* ------------------------------- C6 ------------------------------------ *)
AfterSource(th) ==
    InCall(th) /\ th.withSource /\ th.pc \in {"loop", "done"} /\ th.appendedFrames > 0

\* the 0-based indices of the window that are in the file
WindowIdx(th, L) ==
    {i \in (CurFrame(th).Line - 1 - th.before)..(CurFrame(th).Line - 1 + th.after) :
        0 <= i /\ i < L}

\* C6: for a frame whose file has L cached lines, sourceRows appends the one
\* 'too few lines, got L, want Line' row and a blank row when L < Line, and
\* otherwise the rows of the window's indices that are in [0, L), ascending,
\* each numbered i+1, and then one blank row.
C6_SourceRows ==
    \A t \in Threads :
        LET th == thr[t]
            path == CurFrame(th).Path
            L == Len(cache[path])
            b == LastBlock(th)
            idx == WindowIdx(th, L)
            lo == CHOOSE i \in idx : \A h \in idx : i <= h
        IN  AfterSource(th) /\ path \in DOMAIN cache =>
              IF L < CurFrame(th).Line
              THEN /\ Len(b) = 2
                   /\ Plain(b[1]) = TooFew(L, CurFrame(th).Line)
                   /\ b[2] = <<>>
              ELSE /\ Len(b) = Cardinality(idx) + 1
                   /\ b[Len(b)] = <<>>
                   /\ \A j \in 1..Cardinality(idx) :
                         Plain(b[j]) = Itoa(lo + j) \o <<TAB>> \o cache[path][lo + j]

\* a window cut at the end of the file
C6_Witness ==
    \E t \in Threads :
        LET th == thr[t]
        IN  /\ AfterSource(th) /\ th.pc = "done" /\ CurFrame(th).Path \in DOMAIN cache
            /\ Len(cache[CurFrame(th).Path]) = 2 /\ CurFrame(th).Line = 2
            /\ th.before = 1 /\ th.after = 1
            /\ Len(LastBlock(th)) = 3

(* ------------------------------- C7 ------------------------------------ *)
PathOf(t) == CurFrame(thr[t]).Path

\* C7 as stated: a call that starts after a call for the path has returned
\* successfully reads no file and returns the lines the first call returned;
\* in a sequential history a path read successfully was read once.
C7_FastPathSameAsFirst ==
    /\ \A t \in Threads :
          thr[t].late =>
              /\ thr[t].pc \notin {"read", "lock", "locked"}
              /\ thr[t].pc \in {"loop", "done"} => thr[t].lines = firstLines[PathOf(t)]
    /\ \A p \in DOMAIN firstLines : sequential => fileReads[p] = 1

C7_State ==
    /\ \A t \in Threads :
          thr[t].late =>
              /\ thr[t].pc \notin {"read", "lock", "locked"}
              /\ sequential /\ thr[t].pc \in {"loop", "done"}
                    => thr[t].lines = firstLines[PathOf(t)]
    /\ \A p \in DOMAIN firstLines : sequential => fileReads[p] = 1

C7_Step ==
    \A t \in Threads :
        thr[t].late /\ thr[t].pc = "rlocked" /\ Moved(t) =>
            /\ thr'[t].pc \in {"loop", "done"}
            /\ thr'[t].lines = cache[PathOf(t)]
            /\ fileReads' = fileReads
            /\ cache' = cache

\* C7, amended: such a call reads no file and returns the entry the cache holds
\* at its lookup, whatever the file has become; in a sequential history that
\* entry is the lines the first call returned, and the path was read once.
C7_FastPath == [][C7_State /\ C7_State' /\ C7_Step]_vars

\* a late call has returned the first call's lines although the file has changed
C7_Witness ==
    \E t \in Threads :
        /\ thr[t].late /\ thr[t].pc = "done" /\ sequential
        /\ PathA \in DOMAIN firstLines /\ thr[t].lines = firstLines[PathA]
        /\ fileReads[PathA] = 1
        /\ PathA \in DOMAIN fs /\ Split(fs[PathA]) # thr[t].lines

(* ------------------------------- C8 ------------------------------------ *)
\* C8: with the file readable and unchanged, every readLines call of any number
\* of concurrent callers returns the same lines without an error, the cache
\* holds these lines once a call has returned, and the cache is written only
\* by the one holder of the write lock, with no reader or other writer inside.
C8_ConcurrentSame ==
    LET content == Split(ContentV1)
    IN  /\ \A t \in Threads :
              LET th == thr[t]
              IN  /\ AfterSource(th) =>
                        /\ th.lines = content
                        /\ PathA \in DOMAIN cache
                        /\ LastBlock(th) = <<Itoa(1) \o <<TAB>> \o content[1], <<>> >>
                  /\ th.pc = "locked" =>
                        /\ mutex.writer = t /\ mutex.readers = {}
                        /\ \A u \in Threads \ {t} : thr[u].pc \notin {"rlocked", "locked"}
                  /\ th.pc = "rlocked" => t \in mutex.readers /\ mutex.writer = 0
        /\ \A p \in DOMAIN cache : p = PathA /\ cache[p] = content

\* two callers have missed the cache and read the file, one holds the write lock
C8_Witness ==
    /\ thr[1].pc = "locked" /\ thr[2].pc = "lock"
    /\ fileReads[PathA] = 2 /\ cache = EmptyMap

(* ------------------------------- C9 ------------------------------------ *)
MissersOf(p) ==
    {t \in Threads : thr[t].pc \in {"read", "lock", "locked"} /\ PathOf(t) = p}

\* C9 as stated: once a path is cached its entry stays and keeps its value, and
\* no step reads the file or writes the cache for it again.
C9_NeverRecomputed ==
    [][\A p \in DOMAIN cache :
          /\ p \in DOMAIN cache'
          /\ cache'[p] = cache[p]
          /\ fileReads'[p] = fileReads[p]
          /\ \A t \in Threads : ~(thr[t].pc = "locked" /\ PathOf(t) = p /\ Moved(t))]_vars

\* C9, amended: once a path is cached its entry is never removed, a call that
\* looks it up from then on returns the entry without a file read or a cache
\* write, and only the calls that had missed the cache before may still read
\* the file and overwrite the entry; in a sequential history there is none.
C9_OnlyEarlierMisses ==
    [][\A p \in DOMAIN cache :
          /\ p \in DOMAIN cache'
          /\ MissersOf(p)' \subseteq MissersOf(p)
          /\ (cache'[p] # cache[p] \/ fileReads'[p] # fileReads[p])
                => \E t \in MissersOf(p) : Moved(t)
          /\ \A t \in Threads :
                thr[t].pc = "rlocked" /\ PathOf(t) = p /\ Moved(t)
                    => thr'[t].pc \in {"loop", "done"} /\ cache' = cache /\ fileReads' = fileReads
          /\ sequential' => cache'[p] = cache[p] /\ fileReads'[p] = fileReads[p]]_vars

\* the entry was overwritten by an earlier miss and a later call took the fast path
C9_Witness ==
    /\ PathA \in DOMAIN cache /\ PathA \in DOMAIN firstLines
    /\ cache[PathA] # firstLines[PathA]
    /\ fileReads[PathA] = 2
    /\ \E t \in Threads : thr[t].late /\ thr[t].pc = "done" /\ thr[t].lines = cache[PathA]

(* ------------------------------- C10 ----------------------------------- *)
C10_State ==
    /\ \A p \in DOMAIN cache :
          cache[p] \in {Split(ContentV1), Split(ContentV2)} /\ fileReads[p] >= 1
    /\ \A t \in Threads :
          thr[t].pc \in {"lock", "locked"} => thr[t].lines \in {Split(ContentV1), Split(ContentV2)}
    /\ mutex.writer # 0 => thr[mutex.writer].pc = "locked"

C10_Step ==
    \A t \in Threads :
        LET th == thr[t]
        IN  Moved(t) =>
              /\ th.pc = "rlocked" /\ PathOf(t) \notin DOMAIN cache => thr'[t].pc = "read"
              /\ th.pc = "read" /\ PathOf(t) \notin DOMAIN fs =>
                    /\ cache' = cache /\ mutex' = mutex /\ fileReads' = fileReads
                    /\ thr'[t].rows = th.rows \o <<NotFound(PathOf(t)), <<>> >>
                    /\ thr'[t].pc = "loop" /\ thr'[t].i = th.i
                    /\ thr'[t].appendedFrames = th.appendedFrames + 1
              /\ th.pc = "read" /\ PathOf(t) \in DOMAIN fs =>
                    /\ thr'[t].pc = "lock" /\ thr'[t].lines = Split(fs[PathOf(t)])
                    /\ fileReads'[PathOf(t)] = fileReads[PathOf(t)] + 1
                    /\ cache' = cache
              /\ th.pc = "locked" =>
                    /\ PathOf(t) \in DOMAIN cache' /\ cache'[PathOf(t)] = th.lines
                    /\ thr'[t].rows = th.rows \o <<Itoa(1) \o <<TAB>> \o th.lines[1], <<>> >>
              /\ th.pc = "loop" /\ th.i < NFrames(th) =>
                    thr'[t].rows = Append(th.rows, FrameString(th.err.frames[th.i + 1]))

\* C10: a readLines call whose file read fails takes no write lock and leaves
\* the cache as it was, sourceRows adds the one warning row and a blank row,
\* and sprint goes on with the next frame; no entry is ever stored for a failed
\* read, so a later call misses the cache, reads the file afresh and, when the
\* file is readable, stores its lines.
C10_FailureNotCached == [][C10_State /\ C10_State' /\ C10_Step]_vars

\* frame 1 met a missing file, frame 2 of the same call read and cached it
C10_Witness ==
    \E t \in Threads :
        /\ thr[t].pc = "done" /\ Len(thr[t].rows) = 8
        /\ thr[t].rows[4] = NotFound(PathA)
        /\ PathA \in DOMAIN cache
        /\ thr[t].rows[7] = Itoa(1) \o <<TAB>> \o cache[PathA][1]
        /\ fileReads[PathA] = 1

====
